---- MODULE Spec2Model ----
(***************************************************************************)
(* Model of translate_chinese_classic_enhanced.py: the text segmentation   *)
(* functions (count_tokens, break_large_paragraph, force_substring_chunks, *)
(* segment_chapter, split_text_into_chapters) and the chapter/segment loop *)
(* of main() and translate_full_chapter().                                 *)
(*                                                                         *)
(* A Python str is a sequence of one-character strings.  The characters    *)
(* stand for the classes the code distinguishes:                           *)
(*   " " "\n"  whitespace (str.strip, str.split, regex \s)                 *)
(*   "."       a sentence terminator, one of [。.!?]                       *)
(*   "a"       any other character outside U+4E00..U+9FA5 and not a digit  *)
(*   "D"       the character 第 (U+7B2C)                                   *)
(*   "H"       the character 回 (U+56DE)                                   *)
(*   "c"       any other character of U+4E00..U+9FA5, or a digit           *)
(* The token budgets are the module constants of the program scaled down   *)
(* (6000 : 3000 : 100 becomes 4 : 2 : 1) so that texts of a few characters *)
(* exceed them; the scaling keeps 2*SUB_CHUNK_SIZE <= MAX_TOKENS and       *)
(* SUB_CHUNK_SIZE + 2*OVERLAP_TOKENS <= MAX_TOKENS, as in the program.     *)
(***************************************************************************)
EXTENDS Integers, Sequences, FiniteSets, TLC

VARIABLES
    text,                 \* the input of the run: a chapter text or the document
    pc,                   \* position in the program
    arg,                  \* argument of the segmentation function applied
    out,                  \* the list it returned
    chapters,             \* main: chapters
    idx,                  \* main: idx, the 1-based ordinal of the chapter
    segments,             \* translate_full_chapter: segments
    seg_i,                \* translate_full_chapter: i
    translated_segments,  \* translate_full_chapter: translated_segments
    files,                \* content of Chapter_<k>.txt in the output directory
    events,               \* history of submissions, answers and file writes
    failed                \* ordinal of the chapter whose translation raised, or 0

vars == <<text, pc, arg, out, chapters, idx, segments, seg_i,
          translated_segments, files, events, failed>>

driverVars == <<chapters, idx, segments, seg_i, translated_segments,
                files, events, failed>>

\* ---------------------------------------------------------------- bounds
MaxLen == 7
MaxDocLen == 7
MaxChapters == 2

\* ------------------------------------------------- adjustable parameters
MAX_TOKENS == 4
SUB_CHUNK_SIZE == 2
OVERLAP_TOKENS == 1

\* ------------------------------------------------------ character classes
WS == {" ", "\n"}
SENTENCE_END == {"."}
CJK_OR_DIGIT == {"D", "H", "c"}

\* ------------------------------------------------------- str primitives
RECURSIVE lstrip(_)
lstrip(s) ==
    IF s = <<>> THEN <<>>
    ELSE IF Head(s) \in WS THEN lstrip(Tail(s)) ELSE s

RECURSIVE rstrip(_)
rstrip(s) ==
    IF s = <<>> THEN <<>>
    ELSE IF s[Len(s)] \in WS THEN rstrip(SubSeq(s, 1, Len(s) - 1)) ELSE s

strip(s) == rstrip(lstrip(s))

\* str.split(): the maximal runs of non-whitespace characters, in order.
RECURSIVE split_scan(_, _, _)
split_scan(s, cur, acc) ==
    IF s = <<>> THEN (IF cur = <<>> THEN acc ELSE Append(acc, cur))
    ELSE IF Head(s) \in WS
         THEN split_scan(Tail(s), <<>>, IF cur = <<>> THEN acc ELSE Append(acc, cur))
         ELSE split_scan(Tail(s), Append(cur, Head(s)), acc)

split(s) == split_scan(s, <<>>, <<>>)

\* sep.join(list)
RECURSIVE join(_, _)
join(sep, list) ==
    IF list = <<>> THEN <<>>
    ELSE IF Len(list) = 1 THEN list[1]
    ELSE list[1] \o sep \o join(sep, Tail(list))

\* str.split("\n\n"): cut at each non-overlapping blank line, left to right,
\* keeping empty pieces.
RECURSIVE split_blank_scan(_, _, _)
split_blank_scan(s, cur, acc) ==
    IF s = <<>> THEN Append(acc, cur)
    ELSE IF Len(s) >= 2 /\ s[1] = "\n" /\ s[2] = "\n"
         THEN split_blank_scan(SubSeq(s, 3, Len(s)), <<>>, Append(acc, cur))
         ELSE split_blank_scan(Tail(s), Append(cur, Head(s)), acc)

split_blank(s) == split_blank_scan(s, <<>>, <<>>)

\* re.split(r'(?<=[。\.!?])\s*', s): a match starts right after a sentence
\* terminator and consumes the whitespace run that follows it (possibly
\* empty); the pieces between matches are returned, empty ones included.
RECURSIVE re_split_scan(_, _, _)
re_split_scan(s, cur, acc) ==
    IF s = <<>> THEN Append(acc, cur)
    ELSE IF Head(s) \in SENTENCE_END
         THEN re_split_scan(lstrip(Tail(s)), <<>>, Append(acc, Append(cur, Head(s))))
         ELSE re_split_scan(Tail(s), Append(cur, Head(s)), acc)

re_split_sentences(s) == re_split_scan(s, <<>>, <<>>)

\* [x.strip() for x in list if x.strip()]
RECURSIVE strip_nonempty(_)
strip_nonempty(list) ==
    IF list = <<>> THEN <<>>
    ELSE IF strip(Head(list)) = <<>> THEN strip_nonempty(Tail(list))
    ELSE <<strip(Head(list))>> \o strip_nonempty(Tail(list))

\* ------------------------------------------------------ count_tokens
\* Character-count estimator (the branch taken when no tokenizer is loaded).
count_tokens(s) == Len(s)

\* ------------------------------------------------ break_large_paragraph
\* Lines 106-114: walk the words of the last sub-chunk in reverse, keeping
\* whole words while the sum of their lengths stays within OVERLAP_TOKENS.
RECURSIVE overlap_scan(_, _, _, _)
overlap_scan(last_chunk_tokens, i, overlap_chunk, tokens_so_far) ==
    IF i = 0 THEN overlap_chunk
    ELSE IF tokens_so_far + Len(last_chunk_tokens[i]) <= OVERLAP_TOKENS
         THEN overlap_scan(last_chunk_tokens, i - 1,
                           last_chunk_tokens[i] \o <<" ">> \o overlap_chunk,
                           tokens_so_far + Len(last_chunk_tokens[i]))
         ELSE overlap_chunk

build_overlap(last_chunk) ==
    overlap_scan(split(last_chunk), Len(split(last_chunk)), <<>>, 0)

\* One iteration of the loop over sentences (lines 97-118).
blp_step(st, sentence) ==
    LET candidate == strip(st.current_chunk
                           \o (IF st.current_chunk # <<>> THEN <<" ">> ELSE <<>>)
                           \o sentence)
    IN IF count_tokens(candidate) > SUB_CHUNK_SIZE
       THEN LET chunks1 == IF st.current_chunk # <<>>
                           THEN Append(st.chunks, st.current_chunk)
                           ELSE st.chunks
                candidate1 == IF OVERLAP_TOKENS > 0 /\ chunks1 # <<>>
                              THEN strip(build_overlap(chunks1[Len(chunks1)]) \o sentence)
                              ELSE candidate
            IN [chunks |-> chunks1, current_chunk |-> candidate1]
       ELSE [chunks |-> st.chunks, current_chunk |-> candidate]

RECURSIVE blp_loop(_, _)
blp_loop(st, sentences) ==
    IF sentences = <<>> THEN st
    ELSE blp_loop(blp_step(st, Head(sentences)), Tail(sentences))

sentences_of(paragraph) == strip_nonempty(re_split_sentences(paragraph))

break_large_paragraph(paragraph) ==
    LET st == blp_loop([chunks |-> <<>>, current_chunk |-> <<>>],
                       sentences_of(paragraph))
    IN IF st.current_chunk # <<>> THEN Append(st.chunks, st.current_chunk)
       ELSE st.chunks

\* ----------------------------------------------- force_substring_chunks
\* fsc_step restarting the piece without the word that overflowed it
fsc_step_dropword(st, w, max_size) ==
    IF st.current_tokens + Len(w) > max_size
    THEN [results |-> Append(st.results, join(<<" ">>, st.current_text)),
          current_text |-> <<>>,
          current_tokens |-> 0]
    ELSE [results |-> st.results,
          current_text |-> Append(st.current_text, w),
          current_tokens |-> st.current_tokens + Len(w)]

\* One iteration of the loop over words (lines 157-166).
fsc_step(st, w, max_size) ==
    IF st.current_tokens + Len(w) > max_size
    THEN [results |-> Append(st.results, join(<<" ">>, st.current_text)),
          current_text |-> <<w>>,
          current_tokens |-> Len(w)]
    ELSE [results |-> st.results,
          current_text |-> Append(st.current_text, w),
          current_tokens |-> st.current_tokens + Len(w)]

RECURSIVE fsc_loop(_, _, _)
fsc_loop(st, words, max_size) ==
    IF words = <<>> THEN st
    ELSE fsc_loop(fsc_step(st, Head(words), max_size), Tail(words), max_size)

force_substring_chunks(txt, max_size) ==
    LET st == fsc_loop([results |-> <<>>, current_text |-> <<>>, current_tokens |-> 0],
                       split(txt), max_size)
    IN IF st.current_text # <<>>
       THEN Append(st.results, join(<<" ">>, st.current_text))
       ELSE st.results

\* ------------------------------------------------------ segment_chapter
\* Lines 210-220: a sub-chunk within budget is emitted as is, another one
\* is cut by force_substring_chunks.
RECURSIVE emit_subchunks(_)
emit_subchunks(subchunks) ==
    IF subchunks = <<>> THEN <<>>
    ELSE (IF count_tokens(Head(subchunks)) <= MAX_TOKENS
          THEN <<Head(subchunks)>>
          ELSE force_substring_chunks(Head(subchunks), MAX_TOKENS))
         \o emit_subchunks(Tail(subchunks))

\* One iteration of the loop over paragraphs (lines 196-233).
seg_step(st, para) ==
    IF count_tokens(para) > MAX_TOKENS
    THEN [segments |-> (IF st.current_segment # <<>>
                        THEN Append(st.segments, strip(st.current_segment))
                        ELSE st.segments)
                       \o emit_subchunks(break_large_paragraph(para)),
          current_segment |-> <<>>]
    ELSE LET candidate == strip(st.current_segment \o para)
         IN IF count_tokens(candidate) > MAX_TOKENS
            THEN [segments |-> IF st.current_segment # <<>>
                               THEN Append(st.segments, strip(st.current_segment))
                               ELSE st.segments,
                  current_segment |-> para \o <<"\n", "\n">>]
            ELSE [segments |-> st.segments,
                  current_segment |-> st.current_segment \o <<"\n", "\n">> \o para]

RECURSIVE seg_loop(_, _)
seg_loop(st, paras) ==
    IF paras = <<>> THEN st
    ELSE seg_loop(seg_step(st, Head(paras)), Tail(paras))

paragraphs_of(chapter_text) == strip_nonempty(split_blank(chapter_text))

\* Lines 190-240: the path taken when the chapter exceeds MAX_TOKENS.
segment_by_paragraphs(chapter_text) ==
    LET st == seg_loop([segments |-> <<>>, current_segment |-> <<>>],
                       paragraphs_of(chapter_text))
    IN IF st.current_segment # <<>>
       THEN Append(st.segments, strip(st.current_segment))
       ELSE st.segments

\* segment_chapter taking the shortcut only strictly below the budget
segment_chapter_strict(chapter_text) ==
    IF count_tokens(chapter_text) < MAX_TOKENS
    THEN <<chapter_text>>
    ELSE segment_by_paragraphs(chapter_text)

segment_chapter(chapter_text) ==
    IF count_tokens(chapter_text) <= MAX_TOKENS
    THEN <<chapter_text>>
    ELSE segment_by_paragraphs(chapter_text)

\* ---------------------------------------------- split_text_into_chapters
RECURSIVE cjk_run_len(_)
cjk_run_len(s) ==
    IF s = <<>> THEN 0
    ELSE IF Head(s) \in CJK_OR_DIGIT THEN 1 + cjk_run_len(Tail(s)) ELSE 0

\* Length of the match of 第[一-龥\d]+回 anchored at the start of s,
\* 0 when there is none.  The character class also contains 第 and 回, and
\* the + is greedy: the match runs to the last 回 of the run of class
\* characters that follows 第, leaving at least one character in between.
heading_len(s) ==
    IF s = <<>> THEN 0
    ELSE IF Head(s) # "D" THEN 0
    ELSE LET r == cjk_run_len(Tail(s))
             ends == {j \in 2..r : s[1 + j] = "H"}
         IN IF ends = {} THEN 0
            ELSE 1 + (CHOOSE j \in ends : \A k \in ends : k <= j)

\* pattern.split(text) with one capturing group:
\* [before, title, between, title, ..., after].
RECURSIVE pattern_split_scan(_, _, _)
pattern_split_scan(s, cur, acc) ==
    IF s = <<>> THEN Append(acc, cur)
    ELSE IF heading_len(s) > 0
         THEN pattern_split_scan(SubSeq(s, heading_len(s) + 1, Len(s)), <<>>,
                                 acc \o <<cur, SubSeq(s, 1, heading_len(s))>>)
         ELSE pattern_split_scan(Tail(s), Append(cur, Head(s)), acc)

pattern_split(s) == pattern_split_scan(s, <<>>, <<>>)

\* Lines 136-141, i being the 1-based position of a title in parts.
RECURSIVE chapters_from(_, _)
chapters_from(parts, i) ==
    IF i > Len(parts) THEN <<>>
    ELSE LET title == parts[i]
             content == IF i + 1 <= Len(parts) THEN parts[i + 1] ELSE <<>>
             chapter_text == strip(title \o content)
         IN (IF chapter_text # <<>> THEN <<chapter_text>> ELSE <<>>)
            \o chapters_from(parts, i + 2)

split_text_into_chapters(s) == chapters_from(pattern_split(s), 2)

\* ============================================================ text inputs
SegAlphabet == {"a", ".", " ", "\n"}
DocAlphabet == {"D", "H", "c", "a", "\n"}

Texts(alphabet, n) == UNION {[1..k -> alphabet] : k \in 0..n}

\* ================================================= segmentation functions
\* The segmentation functions applied to one chapter text, as main() does
\* through test_short_paragraph, test_long_paragraph and translate_full_chapter.
DriverIdle ==
    /\ chapters = <<>> /\ idx = 0 /\ segments = <<>> /\ seg_i = 0
    /\ translated_segments = <<>> /\ files = <<>> /\ events = <<>>
    /\ failed = 0

SegInit ==
    /\ text \in Texts(SegAlphabet, MaxLen)
    /\ pc = "input"
    /\ arg = <<>>
    /\ out = <<>>
    /\ DriverIdle

CallSegmentChapter ==
    /\ pc = "input"
    /\ arg' = text
    /\ out' = segment_chapter(text)
    /\ pc' = "segment_chapter"
    /\ UNCHANGED <<text, driverVars>>

\* Line 208: break_large_paragraph receives a paragraph of the chapter whose
\* cost alone exceeds MAX_TOKENS.
CallBreakLargeParagraph ==
    /\ pc = "input"
    /\ count_tokens(text) > MAX_TOKENS
    /\ \E k \in DOMAIN paragraphs_of(text) :
          /\ count_tokens(paragraphs_of(text)[k]) > MAX_TOKENS
          /\ arg' = paragraphs_of(text)[k]
          /\ out' = break_large_paragraph(paragraphs_of(text)[k])
    /\ pc' = "break_large_paragraph"
    /\ UNCHANGED <<text, driverVars>>

\* Line 217: force_substring_chunks receives a sub-chunk whose cost exceeds
\* MAX_TOKENS, with max_size = MAX_TOKENS.
CallForceSubstringChunks ==
    /\ pc = "input"
    /\ count_tokens(text) > MAX_TOKENS
    /\ \E k \in DOMAIN paragraphs_of(text) :
          /\ count_tokens(paragraphs_of(text)[k]) > MAX_TOKENS
          /\ \E m \in DOMAIN break_large_paragraph(paragraphs_of(text)[k]) :
                LET sc == break_large_paragraph(paragraphs_of(text)[k])[m]
                IN /\ count_tokens(sc) > MAX_TOKENS
                   /\ arg' = sc
                   /\ out' = force_substring_chunks(sc, MAX_TOKENS)
    /\ pc' = "force_substring_chunks"
    /\ UNCHANGED <<text, driverVars>>

SegNext ==
    \/ CallSegmentChapter
    \/ CallBreakLargeParagraph
    \/ CallForceSubstringChunks

SegSpec == SegInit /\ [][SegNext]_vars

\* ======================================================= chapter splitter
\* split_text_into_chapters applied to the document main() reads (line 338).
ChapInit ==
    /\ text \in Texts(DocAlphabet, MaxDocLen)
    /\ pc = "input"
    /\ arg = <<>>
    /\ out = <<>>
    /\ DriverIdle

CallSplitTextIntoChapters ==
    /\ pc = "input"
    /\ arg' = text
    /\ out' = split_text_into_chapters(text)
    /\ pc' = "split_text_into_chapters"
    /\ UNCHANGED <<text, driverVars>>

ChapNext == CallSplitTextIntoChapters

ChapSpec == ChapInit /\ [][ChapNext]_vars

\* ================================================================= driver
\* main() from line 333 on, with translate_full_chapter and translate_chunk
\* inlined.  The translation service is the environment: it answers a
\* submitted segment with some text or with an error.
NoFile == <<"<absent>">>
OldFile == <<"o", "l", "d">>

\* Contents of choices[0].message.content the service may return.
Responses == {<<"x">>, <<" ", "y", "\n">>}

\* Chapter texts the documents are built from: within budget; two
\* paragraphs; three sentences; a first word above the budget.
ChapterPool ==
    { <<"D", "c", "H", "\n">>,
      <<"D", "c", "H", "\n", "\n", "a", "a", "\n">>,
      <<"D", "c", "H", " ", "a", ".", " ", "a", "\n">>,
      <<"D", "c", "H", "a", "a", " ", "a", "\n">> }

RECURSIVE concat(_)
concat(list) == IF list = <<>> THEN <<>> ELSE Head(list) \o concat(Tail(list))

Documents == {concat(l) : l \in Texts(ChapterPool, MaxChapters)}

DriverInit ==
    /\ text \in Documents
    /\ pc = "main"
    /\ arg = <<>>
    /\ out = <<>>
    /\ chapters = <<>>
    /\ idx = 0
    /\ segments = <<>>
    /\ seg_i = 0
    /\ translated_segments = <<>>
    /\ files \in [1..MaxChapters -> {NoFile, OldFile}]
    /\ events = <<>>
    /\ failed = 0

\* Line 338.
SplitDocument ==
    /\ pc = "main"
    /\ chapters' = split_text_into_chapters(text)
    /\ pc' = "for_chapter"
    /\ UNCHANGED <<text, arg, out, idx, segments, seg_i, translated_segments,
                   files, events, failed>>

\* Lines 343-347 and 270-271: the next chapter is taken and segmented.
NextChapter ==
    /\ pc = "for_chapter"
    /\ idx < Len(chapters)
    /\ idx' = idx + 1
    /\ segments' = segment_chapter(chapters[idx + 1])
    /\ seg_i' = 0
    /\ translated_segments' = <<>>
    /\ pc' = "for_segment"
    /\ UNCHANGED <<text, arg, out, chapters, files, events, failed>>

\* Lines 273-275 and 254: the next segment is sent to the service.
SubmitSegment ==
    /\ pc = "for_segment"
    /\ seg_i < Len(segments)
    /\ seg_i' = seg_i + 1
    /\ events' = Append(events, [op |-> "submit", ch |-> idx, seg |-> seg_i + 1,
                                 body |-> segments[seg_i + 1]])
    /\ pc' = "translate_chunk"
    /\ UNCHANGED <<text, arg, out, chapters, idx, segments, translated_segments,
                   files, failed>>

\* Lines 261-263 and 276: the service answers, the stripped answer is appended.
TranslateOk ==
    /\ pc = "translate_chunk"
    /\ \E r \in Responses :
          /\ translated_segments' = Append(translated_segments, strip(r))
          /\ events' = Append(events, [op |-> "answer", ch |-> idx, seg |-> seg_i,
                                       body |-> strip(r)])
    /\ pc' = "for_segment"
    /\ UNCHANGED <<text, arg, out, chapters, idx, segments, seg_i, files, failed>>

\* TranslateFail with the exception caught inside the segment loop
TranslateFail_continue ==
    /\ pc = "translate_chunk"
    /\ failed' = idx
    /\ events' = Append(events, [op |-> "error", ch |-> idx, seg |-> seg_i,
                                 body |-> <<>>])
    /\ pc' = "for_segment"
    /\ UNCHANGED <<text, arg, out, chapters, idx, segments, seg_i,
                   translated_segments, files>>

\* Line 254 raises; the exception leaves translate_full_chapter and reaches
\* the handler of line 348.
TranslateFail ==
    /\ pc = "translate_chunk"
    /\ failed' = idx
    /\ events' = Append(events, [op |-> "error", ch |-> idx, seg |-> seg_i,
                                 body |-> <<>>])
    /\ pc' = "except"
    /\ UNCHANGED <<text, arg, out, chapters, idx, segments, seg_i,
                   translated_segments, files>>

\* Lines 348-351 and 357: log, print, break.
HandleException ==
    /\ pc = "except"
    /\ pc' = "done"
    /\ UNCHANGED <<text, arg, out, driverVars>>

\* SaveChapter joining the translations with a single line break
SaveChapter_newline ==
    /\ pc = "for_segment"
    /\ seg_i = Len(segments)
    /\ files' = [files EXCEPT ![idx] = join(<<"\n">>, translated_segments)]
    /\ events' = Append(events, [op |-> "write", ch |-> idx, seg |-> 0,
                                 body |-> join(<<"\n">>, translated_segments)])
    /\ pc' = "for_chapter"
    /\ UNCHANGED <<text, arg, out, chapters, idx, segments, seg_i,
                   translated_segments, failed>>

\* Lines 282-284 and 352: the translations are joined and the file written.
SaveChapter ==
    /\ pc = "for_segment"
    /\ seg_i = Len(segments)
    /\ files' = [files EXCEPT ![idx] = join(<<"\n", "\n">>, translated_segments)]
    /\ events' = Append(events, [op |-> "write", ch |-> idx, seg |-> 0,
                                 body |-> join(<<"\n", "\n">>, translated_segments)])
    /\ pc' = "for_chapter"
    /\ UNCHANGED <<text, arg, out, chapters, idx, segments, seg_i,
                   translated_segments, failed>>

\* Line 357: the loop is exhausted.
Finish ==
    /\ pc = "for_chapter"
    /\ idx = Len(chapters)
    /\ pc' = "done"
    /\ UNCHANGED <<text, arg, out, driverVars>>

DriverNext ==
    \/ SplitDocument
    \/ NextChapter
    \/ SubmitSegment
    \/ TranslateOk
    \/ TranslateFail
    \/ HandleException
    \/ SaveChapter
    \/ Finish

\* The program is sequential: once the exception is raised its handler runs.
DriverSpec == DriverInit /\ [][DriverNext]_vars /\ WF_vars(HandleException)

\* ================================================================= claims
nonws(s) == SelectSeq(s, LAMBDA ch : ch \notin WS)

Min2(a, b) == IF a <= b THEN a ELSE b

RECURSIVE sum_len(_)
sum_len(list) == IF list = <<>> THEN 0 ELSE Len(Head(list)) + sum_len(Tail(list))

\* a single whitespace-delimited word
IsSingleWord(s) == split(s) = <<s>>

\* C1: every segment returned by segment_chapter costs at most MAX_TOKENS,
\* except a segment that is a single word which alone exceeds MAX_TOKENS.
C1_SegmentsWithinBudget ==
    pc = "segment_chapter" =>
        \A i \in DOMAIN out :
            \/ count_tokens(out[i]) <= MAX_TOKENS
            \/ IsSingleWord(out[i])

\* The segments segs reproduce the non-whitespace text N from position c on:
\* each segment is a repetition of at most OVERLAP_TOKENS characters that
\* immediately precede position c, followed by the next characters of N, and
\* the last segment ends where N ends.
RECURSIVE covers(_, _, _)
covers(N, segs, c) ==
    IF segs = <<>> THEN c = Len(N)
    ELSE LET x == nonws(Head(segs))
             m == Len(x)
         IN \E k \in 0..Min2(Min2(m, c), OVERLAP_TOKENS) :
               /\ c + m - k <= Len(N)
               /\ SubSeq(x, 1, k) = SubSeq(N, c - k + 1, c)
               /\ SubSeq(x, k + 1, m) = SubSeq(N, c + 1, c + m - k)
               /\ covers(N, Tail(segs), c + m - k)

\* C2: the non-whitespace content of the chapter appears completely and in
\* the original order in the segments, apart from repeated overlap words.
C2_ContentPreserved ==
    pc = "segment_chapter" => covers(nonws(text), out, 0)

\* a chapter cut into several segments, one of which repeats overlap words
C2_Witness ==
    /\ pc = "segment_chapter"
    /\ Len(out) >= 3
    /\ Len(nonws(concat(out))) > Len(nonws(text))
    /\ covers(nonws(text), out, 0)

\* C3: a text within MAX_TOKENS comes back as exactly one segment equal to it.
C3_ShortTextOneSegment ==
    (pc = "segment_chapter" /\ count_tokens(text) <= MAX_TOKENS) => out = <<text>>

\* a text of exactly MAX_TOKENS characters holding a blank-line break
C3_Witness ==
    /\ pc = "segment_chapter"
    /\ count_tokens(text) = MAX_TOKENS
    /\ Len(split_blank(text)) > 1
    /\ out = <<text>>

\* C4: a text above MAX_TOKENS comes back as two or more segments.
C4_LongTextSeveralSegments ==
    (pc = "segment_chapter" /\ count_tokens(text) > MAX_TOKENS) => Len(out) >= 2

\* Shortest heading 第 + one or more class characters + 回 at the start of s,
\* 0 when there is none: the heading as a reader delimits it.
marker_len(s) ==
    IF s = <<>> THEN 0
    ELSE IF Head(s) # "D" THEN 0
    ELSE LET r == cjk_run_len(Tail(s))
             ends == {j \in 2..r : s[1 + j] = "H"}
         IN IF ends = {} THEN 0
            ELSE 1 + (CHOOSE j \in ends : \A k \in ends : j <= k)

\* start positions of the heading markers of s from position p on
RECURSIVE marker_starts(_, _)
marker_starts(s, p) ==
    IF p > Len(s) THEN <<>>
    ELSE IF marker_len(SubSeq(s, p, Len(s))) > 0
         THEN <<p>> \o marker_starts(s, p + marker_len(SubSeq(s, p, Len(s))))
         ELSE marker_starts(s, p + 1)

\* C5: a document with n heading markers yields n chapters, the i-th being
\* the text from the i-th heading up to the next heading, trimmed.
C5_OneChapterPerHeading ==
    pc = "split_text_into_chapters" =>
        LET ms == marker_starts(text, 1)
        IN /\ Len(out) = Len(ms)
           /\ \A i \in DOMAIN ms :
                 /\ i \in DOMAIN out
                 /\ out[i] = strip(SubSeq(text, ms[i],
                                          IF i < Len(ms) THEN ms[i + 1] - 1
                                          ELSE Len(text)))

\* C8: every piece returned by force_substring_chunks(text, N) costs at most
\* N, the joining spaces included, unless it is a single word above N.
C8_ForcedPiecesWithinBudget ==
    pc = "force_substring_chunks" =>
        \A i \in DOMAIN out :
            \/ count_tokens(out[i]) <= MAX_TOKENS
            \/ IsSingleWord(out[i])

\* The sub-chunks reproduce the words W from position c on, each sub-chunk
\* opening with k trailing words of the previous one whose lengths sum to at
\* most OVERLAP_TOKENS.
RECURSIVE overlap_ok(_, _, _, _)
overlap_ok(W, chunks, c, prev) ==
    IF chunks = <<>> THEN c = Len(W)
    ELSE LET x == split(Head(chunks))
             m == Len(x)
         IN \E k \in 0..Min2(m, Len(prev)) :
               /\ c + m - k <= Len(W)
               /\ SubSeq(x, 1, k) = SubSeq(prev, Len(prev) - k + 1, Len(prev))
               /\ sum_len(SubSeq(x, 1, k)) <= OVERLAP_TOKENS
               /\ SubSeq(x, k + 1, m) = SubSeq(W, c + 1, c + m - k)
               /\ overlap_ok(W, Tail(chunks), c + m - k, x)

\* C9: when no sentence alone exceeds SUB_CHUNK_SIZE, every sub-chunk, its
\* overlap prefix included, costs at most SUB_CHUNK_SIZE, and the overlap
\* prefix is made of whole trailing words of the previous sub-chunk whose
\* lengths sum to at most OVERLAP_TOKENS.
C9_SubChunksWithinBudget ==
    (/\ pc = "break_large_paragraph"
     /\ \A i \in DOMAIN sentences_of(arg) :
            count_tokens(sentences_of(arg)[i]) <= SUB_CHUNK_SIZE)
    => /\ \A i \in DOMAIN out : count_tokens(out[i]) <= SUB_CHUNK_SIZE
       /\ overlap_ok(split(join(<<" ">>, sentences_of(arg))), out, 0, <<>>)

\* C10: segment_chapter never returns an empty segment.
C10_NoEmptySegment ==
    pc = "segment_chapter" => \A i \in DOMAIN out : out[i] # <<>>

\* the bodies of the answers events[from], events[from + 2], ... up to to
RECURSIVE answer_bodies(_, _)
answer_bodies(from, to) ==
    IF from > to THEN <<>>
    ELSE <<events[from].body>> \o answer_bodies(from + 2, to)

\* event n is the submission of the next segment in document order, sent
\* only after the previous one was answered, or after the previous
\* chapter's file was written
SubmitInOrder(n) ==
    /\ events[n].ch \in DOMAIN chapters
    /\ events[n].seg \in DOMAIN segment_chapter(chapters[events[n].ch])
    /\ events[n].body = segment_chapter(chapters[events[n].ch])[events[n].seg]
    /\ IF n = 1 THEN events[n].ch = 1 /\ events[n].seg = 1
       ELSE \/ /\ events[n - 1].op = "answer"
               /\ events[n - 1].ch = events[n].ch
               /\ events[n - 1].seg = events[n].seg - 1
            \/ /\ events[n - 1].op = "write"
               /\ events[n - 1].ch = events[n].ch - 1
               /\ events[n].seg = 1

\* event n answers the submission right before it
AnswerFollowsSubmit(n) ==
    /\ n > 1
    /\ events[n - 1].op = "submit"
    /\ events[n - 1].ch = events[n].ch
    /\ events[n - 1].seg = events[n].seg

\* event n writes the file of a chapter right after the answer to its last
\* segment, the content being the answers to its segments joined in order
WriteAfterAllSegments(n) ==
    /\ events[n].ch \in DOMAIN chapters
    /\ LET K == Len(segment_chapter(chapters[events[n].ch]))
       IN /\ n > 2 * K
          /\ events[n - 1].op = "answer"
          /\ events[n - 1].ch = events[n].ch
          /\ events[n - 1].seg = K
          /\ events[n - 2 * K].op = "submit"
          /\ events[n - 2 * K].ch = events[n].ch
          /\ events[n - 2 * K].seg = 1
          /\ events[n].body = join(<<"\n", "\n">>, answer_bodies(n - 2 * K + 1, n - 1))
          /\ files[events[n].ch] = events[n].body

\* C7: requests are issued one at a time in document order; a chapter's
\* file is written after all its segments are translated and before the
\* next chapter's first segment is submitted; its content is the translated
\* segments joined with a blank line, in order.
C7_SequentialInOrder ==
    \A n \in DOMAIN events :
        /\ events[n].op = "submit" => SubmitInOrder(n)
        /\ events[n].op \in {"answer", "error"} => AnswerFollowsSubmit(n)
        /\ events[n].op = "write" => WriteAfterAllSegments(n)

\* a finished run of two chapters, the first one of several segments whose
\* translations differ
C7_Witness ==
    /\ pc = "done"
    /\ failed = 0
    /\ Len(chapters) = 2
    /\ files[1] = <<"x", "\n", "\n", "y">>
    /\ files[2] # NoFile /\ files[2] # OldFile

\* after the failure: the last event is the failed call, and no file of the
\* failed chapter or of a later one was written
FailureState ==
    failed # 0 =>
        /\ events # <<>>
        /\ events[Len(events)].op = "error"
        /\ events[Len(events)].ch = failed
        /\ \A n \in DOMAIN events : events[n].op = "write" => events[n].ch < failed
        /\ \A n \in DOMAIN events : events[n].op = "error" => n = Len(events)

\* C6: once a translation call of chapter k failed, nothing more is
\* submitted, the failed segment is not retried, no file is written for
\* chapter k or a later one, the files of chapters 1..k-1 stay as they are,
\* and the driver terminates.
C6_FailureStopsRun ==
    /\ [](FailureState)
    /\ [][failed # 0 => (events' = events /\ files' = files /\ failed' = failed)]_vars
    /\ (failed # 0) ~> (pc = "done")

\* the second chapter failed on its second segment after the first
\* chapter's file was written, and the driver has stopped
C6_Witness ==
    /\ pc = "done"
    /\ failed = 2
    /\ events[Len(events)].seg >= 2
    /\ files[1] # NoFile /\ files[1] # OldFile
    /\ files[2] = OldFile

====
